---- MODULE Spec2Model ----
(***************************************************************************)
(* A model of vnpy's ByBit gateway (src/vnpy/gateway/bybit/bybit_gateway.py) *)
(* as a state machine: the REST API callbacks, the push (websocket) channel *)
(* handlers, the order identity map they share, the per-symbol order book   *)
(* and the history pagination loop.                                         *)
(***************************************************************************)
EXTENDS Integers, Sequences, FiniteSets, TLC

\* ------------------------------------------------------------------------
\* Bounds of the model
\* ------------------------------------------------------------------------
\* submissions made through send_order
MaxOrders == 1
\* pages the venue declares for an order list (last_page)
MaxPages == 2

\* ------------------------------------------------------------------------
\* Identifiers, dictionaries
\* ------------------------------------------------------------------------
\* Python's empty string: `if not local_orderid`
NoId == <<>>
\* a local order id made by new_local_orderid, a venue order id
L(n) == <<"L", n>>
V(n) == <<"V", n>>

\* a Python dict: a function whose domain grows
EmptyDict == [x \in {} |-> {}]
Put(f, k, v) == [x \in (DOMAIN f) \cup {k} |-> IF x = k THEN v ELSE f[x]]
Has(f, k) == k \in DOMAIN f

\* what a lookup gives when there is nothing
None == [none |-> TRUE]

\* the order_status strings of the venue and the Status they map to
STATUS_BYBIT2VT ==
  [ Created         |-> "NOTTRADED",
    New             |-> "NOTTRADED",
    PartiallyFilled |-> "PARTTRADED",
    Filled          |-> "ALLTRADED",
    Cancelled       |-> "CANCELLED",
    Rejected        |-> "REJECTED" ]

\* the order_status values the venue reports in the runs checked here
ReportedStatus == { "New", "PartiallyFilled", "Filled" }

VARIABLES
  \* LocalOrderManager
  order_count,              \* number of local ids handed out
  orders,                   \* local_orderid -> order record
  local_sys_orderid_map,    \* local_orderid -> sys_orderid
  sys_local_orderid_map,    \* sys_orderid -> local_orderid
  \* gateway
  usdt_base,                \* the contract mode chosen by connect
  \* REST client
  create_requests,          \* local_orderid -> request.extra, requests in flight
  order_list_requests,      \* <<symbol, page>> -> order list requests in flight
  \* the venue
  venue_orders,             \* sys_orderid -> the order_link_id the venue holds
  \* what the last handler gave out
  emitted,                  \* the order events it gave to gateway.on_order
  logged,                   \* the messages it gave to gateway.write_log
  last_ack,                 \* the ids of the acknowledgment, when it was on_send_order
  \* the pairs the venue has acknowledged, the venue ids it has pushed
  acked,
  pushed

order_vars == << order_count, orders, local_sys_orderid_map, sys_local_orderid_map,
                 usdt_base, create_requests, order_list_requests, venue_orders,
                 emitted, logged, last_ack, acked, pushed >>

VARIABLES
  \* BybitWebsocketApi / BybitPublicWebsocketApi: market data
  ticks,                    \* symbol -> the TickData of a subscribed symbol
  symbol_bids,              \* symbol -> (price -> size)
  symbol_asks,              \* symbol -> (price -> size)
  \* what the last depth packet led to
  handled,                  \* its type, "none" before the first one
  raised,                   \* the exception on_depth ended with, "none" without one
  tick_emitted              \* the tick given to gateway.on_tick, None without one

book_vars == << ticks, symbol_bids, symbol_asks, handled, raised, tick_emitted >>

\* BybitRestApi.query_history
VARIABLES
  hist_pc,                  \* "idle", "loop" (inside while True) or "done" (returned)
  hist_req,                 \* the HistoryRequest: interval and start
  start_time,               \* the cursor sent as "from"
  history,                  \* the bars collected; what query_history returns
  hist_from,                \* the "from" of each request sent, in order
  hist_pages,               \* the result list of each response, in order
  hist_logged,              \* the messages written by query_history
  utc_offset,               \* environment: the UTC offset of the local timezone
  kline_total               \* environment: the number of bars the venue holds

hist_vars == << hist_pc, hist_req, start_time, history, hist_from, hist_pages,
                hist_logged, utc_offset, kline_total >>

\* BybitWebsocketApi (the private channel) and BybitPublicWebsocketApi
VARIABLES
  ws_up,                    \* channel -> the transport of the channel is connected
  ws_login,                 \* "none", "sent" (auth frame out), "ok" or "failed"
  subscribed,               \* channel -> the symbols of self.subscribed, in order
  callbacks,                \* channel -> the topics of self.callbacks
  sent,                     \* the frames sent since the last disconnect, in order
  ws_logged,                \* the messages the last handler gave to write_log
  remembered,               \* the symbols subscribed at the last disconnect, {} before one
  ws_raised                 \* the exception the last handler ended with, "none" without one

session_vars == << ws_up, ws_login, subscribed, callbacks, sent, ws_logged, remembered,
                   ws_raised >>

\* the push thread inside on_order and a REST worker inside on_send_order_error
VARIABLES
  ws_pc,                    \* "idle", or "entry": the order of the entry has been looked up
  ws_d,                     \* the entry of the packet on_order is at
  ws_order,                 \* what get_order_with_sys_orderid returned for it
  rest_pc,                  \* "idle", or "rejecting": order.status has been set
  rest_l                    \* the local id of the order of the request

thread_vars == << ws_pc, ws_d, ws_order, rest_pc, rest_l >>

\* BybitRestApi.cancel_order
VARIABLES
  cancel_sent,              \* the data of each cancel request sent, in order
  cancel_requests,          \* the positions in cancel_sent of the requests in flight
  cancel_answered           \* << position, ret_code >> of the last answer handled

cancel_vars == << cancel_sent, cancel_requests, cancel_answered >>

\* BybitGateway.connect and close
VARIABLES
  running,                  \* client -> it has been started and not stopped
  closed                    \* close() has been called

life_vars == << running, closed >>

\* BybitWebsocketApi.on_trade
VARIABLES
  trade_emitted             \* the trades the last execution packet gave to
                            \* gateway.on_trade, each with the entry it was made from

trade_vars == << trade_emitted >>

vars == << order_vars, book_vars, hist_vars, session_vars, thread_vars, cancel_vars,
           life_vars, trade_vars >>

\* what the steps of one part of the gateway leave alone
other_than_orders == << book_vars, hist_vars, session_vars, thread_vars, cancel_vars,
                       life_vars, trade_vars >>
other_than_book == << order_vars, hist_vars, session_vars, thread_vars, cancel_vars,
                     life_vars, trade_vars >>
other_than_history == << order_vars, book_vars, session_vars, thread_vars, cancel_vars,
                        life_vars, trade_vars >>
\* subscribe makes the tick of its symbol
other_than_session == << order_vars, hist_vars, symbol_bids, symbol_asks, handled,
                         raised, tick_emitted, thread_vars, cancel_vars, life_vars,
                         trade_vars >>
other_than_threads == << book_vars, hist_vars, session_vars, cancel_vars, life_vars,
                         trade_vars >>
other_than_cancel == << book_vars, hist_vars, session_vars, thread_vars, life_vars,
                        trade_vars >>
other_than_trades == << order_vars, book_vars, hist_vars, session_vars, thread_vars,
                        cancel_vars, life_vars >>

\* ------------------------------------------------------------------------
\* LocalOrderManager (vnpy.trader.gateway), as a value
\* ------------------------------------------------------------------------
\* the manager's state together with what has been emitted and logged so far
\* by the running handler
Manager ==
  [ order_count |-> order_count,
    orders |-> orders,
    local_sys |-> local_sys_orderid_map,
    sys_local |-> sys_local_orderid_map,
    emitted |-> <<>>,
    logged |-> <<>> ]

write_log(m, msg) == [m EXCEPT !.logged = Append(@, msg)]

\* a variant: the map is overwritten without looking at what it holds
update_orderid_map_overwrite(m, local_orderid, sys_orderid) ==
  [m EXCEPT !.sys_local = Put(@, sys_orderid, local_orderid),
            !.local_sys = Put(@, local_orderid, sys_orderid)]

\* bind(local_id, venue_id)
update_orderid_map(m, local_orderid, sys_orderid) ==
  LET already_bound ==
        Has(m.local_sys, local_orderid) /\ m.local_sys[local_orderid] # sys_orderid
      identity_conflict ==
        Has(m.sys_local, sys_orderid) /\ m.sys_local[sys_orderid] # local_orderid
      m1 == IF already_bound THEN write_log(m, "AlreadyBound") ELSE m
      m2 == IF identity_conflict THEN write_log(m1, "IdentityConflict") ELSE m1
  IN IF already_bound \/ identity_conflict
     THEN m2
     ELSE [m EXCEPT !.sys_local = Put(@, sys_orderid, local_orderid),
                    !.local_sys = Put(@, local_orderid, sys_orderid)]

get_sys_orderid(m, local_orderid) ==
  IF Has(m.local_sys, local_orderid) THEN m.local_sys[local_orderid] ELSE NoId

get_order_with_local_orderid(m, local_orderid) ==
  IF Has(m.orders, local_orderid) THEN m.orders[local_orderid] ELSE None

get_order_with_sys_orderid(m, sys_orderid) ==
  IF Has(m.sys_local, sys_orderid)
  THEN get_order_with_local_orderid(m, m.sys_local[sys_orderid])
  ELSE None

\* LocalOrderManager.on_order: keep the record under its local id and emit it
order_manager_on_order(m, order) ==
  [m EXCEPT !.orders = Put(@, order.orderid, order),
            !.emitted = Append(@, order)]

\* the variables of the manager after a handler that left it as m
StoreManager(m) ==
  /\ order_count' = m.order_count
  /\ orders' = m.orders
  /\ local_sys_orderid_map' = m.local_sys
  /\ sys_local_orderid_map' = m.sys_local
  /\ emitted' = m.emitted
  /\ logged' = m.logged

\* the variables after a handler other than on_send_order that left the manager as m
StoreHandler(m) == StoreManager(m) /\ last_ack' = NoId

new_local_orderid(m) == [m EXCEPT !.order_count = @ + 1]

\* ------------------------------------------------------------------------
\* BybitRestApi: orders
\* ------------------------------------------------------------------------
symbols_usdt == << "BTCUSDT" >>
symbols_inverse == << "BTCUSD", "ETHUSD", "EOSUSD", "XRPUSD" >>

check_error(data) == data.ret_code # 0

\* send_order: reserve a local id, queue the request, keep and emit the order
send_order ==
  /\ order_count < MaxOrders
  /\ LET m1 == new_local_orderid(Manager)
         order_id == L(m1.order_count)
         order == [orderid |-> order_id, status |-> "SUBMITTING"]
     IN /\ create_requests' = Put(create_requests, order_id, order)
        /\ StoreHandler(order_manager_on_order(m1, order))
  /\ UNCHANGED << usdt_base, order_list_requests, venue_orders, acked, pushed >>
  /\ UNCHANGED other_than_orders

\* a variant: the acknowledgment is read but the ids it reports are not bound
on_send_order_nobind(m, data) ==
  IF check_error(data) THEN write_log(m, "check_error") ELSE m

\* on_send_order(data, request)
on_send_order(m, data) ==
  IF check_error(data)
  THEN write_log(m, "check_error")
  ELSE update_orderid_map(m, data.result.order_link_id, data.result.order_id)

\* a variant: an acknowledgment binds the venue id to itself
on_send_order_self(m, data) ==
  IF check_error(data)
  THEN write_log(m, "check_error")
  ELSE update_orderid_map(m, data.result.order_id, data.result.order_id)

\* on_send_order_failed(status_code, request): the order is rejected locally
on_send_order_failed(m, request_extra) ==
  write_log(order_manager_on_order(m, [request_extra EXCEPT !.status = "REJECTED"]),
            "send_order_failed")

\* a variant: the exception is recorded whatever its type
on_send_order_error_record(m, exception_type, request_extra) ==
  write_log(order_manager_on_order(m, [request_extra EXCEPT !.status = "REJECTED"]),
            "on_error")

\* on_send_order_error(exception_type, ..., request)
on_send_order_error(m, exception_type, request_extra) ==
  LET m1 == order_manager_on_order(m, [request_extra EXCEPT !.status = "REJECTED"])
  IN IF exception_type # "ConnectionError" THEN write_log(m1, "on_error") ELSE m1

\* cancel_order(req): the data of the request it queues; req_orderid is kept
\* to tell which CancelRequest the request came from
cancel_order(m, req) ==
  [ order_id |-> get_sys_orderid(m, req.orderid), req_orderid |-> req.orderid ]

\* a variant: an answer without error sets the order cancelled
on_cancel_order_cancels(m, data, request) ==
  IF check_error(data) THEN write_log(m, "check_error")
  ELSE LET order == get_order_with_local_orderid(m, request.req_orderid)
       IN IF order = None THEN m
          ELSE order_manager_on_order(m, [order EXCEPT !.status = "CANCELLED"])

\* on_cancel_order(data, request)
on_cancel_order(m, data, request) ==
  IF check_error(data) THEN write_log(m, "check_error") ELSE m

\* on_error(exception_type, ..., request): the callback of a request that was
\* queued without one of its own
on_error(m, exception_type, request) == write_log(m, "on_error")

\* on_cancel_order_error(exception_type, ..., request); cancel_order does not
\* pass it to add_request
on_cancel_order_error(m, exception_type, request) ==
  IF exception_type # "ConnectionError" THEN on_error(m, exception_type, request) ELSE m

\* ------------------------------------------------------------------------
\* BybitWebsocketApi: the order topic
\* ------------------------------------------------------------------------
\* a variant: the order_link_id of the push is not used as the local id
on_order_entry_nohint(m, d) ==
  LET sys_orderid == d.order_id
      found == get_order_with_sys_orderid(m, sys_orderid)
  IN IF found # None
     THEN order_manager_on_order(m,
            [found EXCEPT !.status = STATUS_BYBIT2VT[d.order_status]])
     ELSE LET local_orderid == sys_orderid
              m1 == update_orderid_map(m, local_orderid, sys_orderid)
          IN order_manager_on_order(m1,
               [orderid |-> local_orderid, status |-> STATUS_BYBIT2VT[d.order_status]])

\* a variant: an update of an order the map does not hold is dropped
on_order_entry_drop(m, d) ==
  LET found == get_order_with_sys_orderid(m, d.order_id)
  IN IF found # None
     THEN order_manager_on_order(m,
            [found EXCEPT !.status = STATUS_BYBIT2VT[d.order_status]])
     ELSE m

\* a variant: an update of a bound order is kept as a new record under the venue id
on_order_entry_dup(m, d) ==
  LET sys_orderid == d.order_id
      local_orderid == IF d.order_link_id = NoId THEN sys_orderid ELSE d.order_link_id
      m1 == update_orderid_map(m, local_orderid, sys_orderid)
  IN order_manager_on_order(m1,
       [orderid |-> sys_orderid, status |-> STATUS_BYBIT2VT[d.order_status]])

\* the body of on_order's loop, for one entry d of packet["data"]
on_order_entry(m, d) ==
  LET sys_orderid == d.order_id
      found == get_order_with_sys_orderid(m, sys_orderid)
  IN IF found # None
     THEN order_manager_on_order(m,
            [found EXCEPT !.status = STATUS_BYBIT2VT[d.order_status]])
     ELSE LET local_orderid ==
                IF d.order_link_id = NoId THEN sys_orderid ELSE d.order_link_id
              m1 == update_orderid_map(m, local_orderid, sys_orderid)
          IN order_manager_on_order(m1,
               [orderid |-> local_orderid, status |-> STATUS_BYBIT2VT[d.order_status]])

\* the body of on_order's loop after the call of get_order_with_sys_orderid
\* has returned `found`
on_order_entry_from(m, d, found) ==
  IF found # None
  THEN order_manager_on_order(m,
         [found EXCEPT !.status = STATUS_BYBIT2VT[d.order_status]])
  ELSE LET sys_orderid == d.order_id
           local_orderid ==
             IF d.order_link_id = NoId THEN sys_orderid ELSE d.order_link_id
           m1 == update_orderid_map(m, local_orderid, sys_orderid)
       IN order_manager_on_order(m1,
            [orderid |-> local_orderid, status |-> STATUS_BYBIT2VT[d.order_status]])

\* a variant: the trade always carries the venue id of the order
on_trade_entry_sys(d) ==
  [ orderid |-> d.order_id, tradeid |-> d.exec_id ]

\* the TradeData on_trade builds from one entry d of packet["data"]
on_trade_entry(d) ==
  LET order_id == IF d.order_link_id = NoId THEN d.order_id ELSE d.order_link_id
  IN [ orderid |-> order_id, tradeid |-> d.exec_id ]

\* on_trade(packet): for d in packet["data"], gateway.on_trade(trade)
on_trade(data) == [i \in 1..Len(data) |-> [d |-> data[i], trade |-> on_trade_entry(data[i])]]

\* on_order(packet): for d in packet["data"]
RECURSIVE on_order(_, _)
on_order(m, data) ==
  IF data = <<>> THEN m ELSE on_order(on_order_entry(m, Head(data)), Tail(data))

\* ------------------------------------------------------------------------
\* BybitRestApi: the order list
\* ------------------------------------------------------------------------
Symbols(usdt) == IF usdt THEN symbols_usdt ELSE symbols_inverse

\* query_order(page): one request per symbol of the contract mode
query_order(reqs, usdt, page) ==
  LET new == { << Symbols(usdt)[i], page >> : i \in DOMAIN Symbols(usdt) }
  IN [k \in (DOMAIN reqs) \cup new |->
        (IF k \in DOMAIN reqs THEN reqs[k] ELSE 0) + (IF k \in new THEN 1 ELSE 0)]

\* the body of on_query_order's loop, for one entry d of result["data"]
on_query_order_entry(m, d) ==
  LET sys_orderid == d.order_id
      local_orderid == IF d.order_link_id = NoId THEN sys_orderid ELSE d.order_link_id
      m1 == update_orderid_map(m, local_orderid, sys_orderid)
  IN order_manager_on_order(m1,
       [orderid |-> local_orderid, status |-> STATUS_BYBIT2VT[d.order_status]])

RECURSIVE on_query_order_loop(_, _)
on_query_order_loop(m, data) ==
  IF data = <<>> THEN m
  ELSE on_query_order_loop(on_query_order_entry(m, Head(data)), Tail(data))

\* on_query_order(data, request): the manager and the requests in flight after it
on_query_order(m, reqs, usdt, data) ==
  IF check_error(data)
  THEN [m |-> write_log(m, "check_error"), reqs |-> reqs]
  ELSE IF data.result = None
  THEN [m |-> write_log(m, "query_order_done"), reqs |-> reqs]
  ELSE IF data.result.data = <<>>
  THEN [m |-> write_log(m, "query_order_done"), reqs |-> reqs]
  ELSE LET m1 == on_query_order_loop(m, data.result.data)
       IN IF data.result.current_page # data.result.last_page
          THEN [m |-> m1, reqs |-> query_order(reqs, usdt, data.result.current_page + 1)]
          ELSE [m |-> write_log(m1, "query_order_done"), reqs |-> reqs]

\* ------------------------------------------------------------------------
\* The venue and the two channels: what can arrive
\* ------------------------------------------------------------------------
VenueIds == DOMAIN venue_orders
\* the venue id of the one order placed from another source
ExternalId == V(0)

\* the venue takes the create request of local id l and gives it a venue id
VenueCreate ==
  /\ \E l \in DOMAIN create_requests :
       /\ \A v \in VenueIds : venue_orders[v] # l
       /\ venue_orders' = Put(venue_orders, V(l[2]), l)
  /\ UNCHANGED << order_count, orders, local_sys_orderid_map, sys_local_orderid_map,
                  usdt_base, create_requests, order_list_requests,
                  emitted, logged, last_ack, acked, pushed >>
  /\ UNCHANGED other_than_orders

\* an order is placed on the venue from another source: it has no order_link_id
VenueExternal ==
  /\ ExternalId \notin VenueIds
  /\ venue_orders' = Put(venue_orders, ExternalId, NoId)
  /\ UNCHANGED << order_count, orders, local_sys_orderid_map, sys_local_orderid_map,
                  usdt_base, create_requests, order_list_requests,
                  emitted, logged, last_ack, acked, pushed >>
  /\ UNCHANGED other_than_orders

\* the entries the venue reports of its orders: the ids it holds, any status
VenueEntries ==
  { [order_id |-> v, order_link_id |-> venue_orders[v], order_status |-> s] :
      v \in VenueIds, s \in ReportedStatus }

\* a packet of the order topic carries one entry; a page of the order list
\* carries one entry or none
OrderPackets == { << d >> : d \in VenueEntries }
OrderPages == OrderPackets \cup { <<>> }

\* the response of the venue to the create request of local id l
CreateResponses(l) ==
  { [ret_code |-> 0, result |-> [order_link_id |-> l, order_id |-> v]] :
      v \in { w \in VenueIds : venue_orders[w] = l } }
  \cup
  IF \E w \in VenueIds : venue_orders[w] = l THEN {}
  ELSE { [ret_code |-> 10001, result |-> None] }

\* the REST acknowledgment of a create request arrives
OnSendOrder ==
  /\ \E l \in DOMAIN create_requests : \E data \in CreateResponses(l) :
       /\ StoreManager(on_send_order(Manager, data))
       /\ last_ack' = IF check_error(data) THEN NoId
                      ELSE << data.result.order_link_id, data.result.order_id >>
       /\ create_requests' = [k \in (DOMAIN create_requests) \ {l} |-> create_requests[k]]
       /\ acked' = IF check_error(data) THEN acked
                   ELSE acked \cup { << data.result.order_link_id, data.result.order_id >> }
  /\ UNCHANGED << usdt_base, order_list_requests, venue_orders, pushed >>
  /\ UNCHANGED other_than_orders

\* the create request ends with a status code that is not 2xx
OnSendOrderFailed ==
  /\ \E l \in DOMAIN create_requests :
       /\ \A v \in VenueIds : venue_orders[v] # l
       /\ StoreHandler(on_send_order_failed(Manager, create_requests[l]))
       /\ create_requests' = [k \in (DOMAIN create_requests) \ {l} |-> create_requests[k]]
  /\ UNCHANGED << usdt_base, order_list_requests, venue_orders, acked, pushed >>
  /\ UNCHANGED other_than_orders

\* the create request ends with an exception; the venue may hold the order
OnSendOrderError ==
  /\ \E l \in DOMAIN create_requests : \E t \in { "ConnectionError", "JSONDecodeError" } :
       /\ StoreHandler(on_send_order_error(Manager, t, create_requests[l]))
       /\ create_requests' = [k \in (DOMAIN create_requests) \ {l} |-> create_requests[k]]
  /\ UNCHANGED << usdt_base, order_list_requests, venue_orders, acked, pushed >>
  /\ UNCHANGED other_than_orders

\* a packet of the order topic arrives; `track` says whether the venue ids it
\* carries are remembered in pushed
OnOrderT(track) ==
  /\ \E data \in OrderPackets :
       /\ StoreHandler(on_order(Manager, data))
       /\ pushed' = IF track THEN pushed \cup { data[i].order_id : i \in DOMAIN data }
                    ELSE pushed
  /\ UNCHANGED << usdt_base, create_requests, order_list_requests, venue_orders, acked >>
  /\ UNCHANGED other_than_orders

OnOrder == OnOrderT(TRUE)

\* the responses of the venue to an order list request of a page
OrderListResponses(page) ==
  { [ret_code |-> 10001, result |-> None], [ret_code |-> 0, result |-> None] }
  \cup
  { [ret_code |-> 0,
     result |-> [data |-> d, current_page |-> page, last_page |-> last]] :
      d \in OrderPages, last \in page..MaxPages }

\* the response to an order list request arrives
OnQueryOrder ==
  /\ \E k \in DOMAIN order_list_requests : \E data \in OrderListResponses(k[2]) :
       /\ order_list_requests[k] > 0
       /\ LET r == on_query_order(Manager,
                     [order_list_requests EXCEPT ![k] = @ - 1], usdt_base, data)
          IN /\ StoreHandler(r.m)
             /\ order_list_requests' = r.reqs
  /\ UNCHANGED << usdt_base, create_requests, venue_orders, acked, pushed >>
  /\ UNCHANGED other_than_orders

\* ------------------------------------------------------------------------
\* BybitWebsocketApi.on_depth (BybitPublicWebsocketApi.on_depth is the same
\* code on the other channel): the order book of a symbol
\* ------------------------------------------------------------------------
\* range(5): the levels of a tick
Depth == 5

Remove(f, k) == [x \in (DOMAIN f) \ {k} |-> f[x]]

\* the tick made by subscribe: no level has been set
NewTick ==
  [ bid_price  |-> [n \in 1..Depth |-> 0],
    bid_volume |-> [n \in 1..Depth |-> 0],
    ask_price  |-> [n \in 1..Depth |-> 0],
    ask_volume |-> [n \in 1..Depth |-> 0] ]

\* a variant: the keys are sorted upwards whatever `reverse` says
RECURSIVE sorted_upwards(_, _)
sorted_upwards(S, reverse) ==
  IF S = {} THEN <<>>
  ELSE LET x == CHOOSE y \in S : \A z \in S : y <= z
       IN << x >> \o sorted_upwards(S \ {x}, reverse)

\* list(keys).sort(), list(keys).sort(reverse=True)
RECURSIVE sorted(_, _)
sorted(S, reverse) ==
  IF S = {} THEN <<>>
  ELSE LET x == IF reverse THEN CHOOSE y \in S : \A z \in S : z <= y
                            ELSE CHOOSE y \in S : \A z \in S : y <= z
       IN << x >> \o sorted(S \ {x}, reverse)

\* for d in ...: bids[price] = d or asks[price] = d
RECURSIVE depth_set(_, _)
depth_set(book, ds) ==
  IF ds = <<>> THEN book
  ELSE LET d == Head(ds)
       IN depth_set(IF d.side = "Buy"
                    THEN [book EXCEPT !.bids = Put(@, d.price, d.size)]
                    ELSE [book EXCEPT !.asks = Put(@, d.price, d.size)],
                    Tail(ds))

\* a variant: a delete of a price the side does not hold is passed over
RECURSIVE depth_pop_default(_, _)
depth_pop_default(book, ds) ==
  IF ds = <<>> THEN book
  ELSE LET d == Head(ds)
       IN depth_pop_default(IF d.side = "Buy"
                            THEN [book EXCEPT !.bids = Remove(@, d.price)]
                            ELSE [book EXCEPT !.asks = Remove(@, d.price)],
                            Tail(ds))

\* for d in data["delete"]: bids.pop(price) or asks.pop(price); pop raises
\* KeyError when the price is not a key, and the loop ends there
RECURSIVE depth_pop(_, _)
depth_pop(book, ds) ==
  IF ds = <<>> THEN book
  ELSE LET d == Head(ds)
           side == IF d.side = "Buy" THEN book.bids ELSE book.asks
       IN IF ~Has(side, d.price)
          THEN [book EXCEPT !.raised = "KeyError"]
          ELSE depth_pop(IF d.side = "Buy"
                         THEN [book EXCEPT !.bids = Remove(@, d.price)]
                         ELSE [book EXCEPT !.asks = Remove(@, d.price)],
                         Tail(ds))

\* the first part of on_depth: the packet is put into the two dicts
depth_update(book, packet) ==
  IF packet.type = "snapshot"
  THEN depth_set(book, packet.data)
  ELSE LET b1 == depth_pop(book, packet.data.delete)
       IN IF b1.raised # "none" THEN b1
          ELSE depth_set(b1, packet.data.update \o packet.data.insert)

\* for i in range(5): bid_keys[i] and ask_keys[i] raise IndexError when the
\* list is shorter, before the four setattr of that round
RECURSIVE depth_levels(_, _, _, _)
depth_levels(book, bid_keys, ask_keys, i) ==
  IF i = Depth THEN book
  ELSE IF i + 1 > Len(bid_keys) \/ i + 1 > Len(ask_keys)
  THEN [book EXCEPT !.raised = "IndexError"]
  ELSE LET n == i + 1
           bid_price == bid_keys[i + 1]
           ask_price == ask_keys[i + 1]
       IN depth_levels(
            [book EXCEPT !.tick.bid_price[n] = bid_price,
                         !.tick.bid_volume[n] = book.bids[bid_price],
                         !.tick.ask_price[n] = ask_price,
                         !.tick.ask_volume[n] = book.asks[ask_price]],
            bid_keys, ask_keys, i + 1)

\* on_depth(packet) on the dicts and the tick of the packet's symbol
on_depth(book, packet) ==
  LET b1 == depth_update([book EXCEPT !.raised = "none", !.emitted = None], packet)
  IN IF b1.raised # "none" THEN b1
     ELSE LET b2 == depth_levels(b1, sorted(DOMAIN b1.bids, TRUE),
                                 sorted(DOMAIN b1.asks, FALSE), 0)
          IN IF b2.raised # "none" THEN b2
             ELSE [b2 EXCEPT !.emitted = b2.tick]

\* the dicts and the tick of a symbol: symbol_bids.setdefault(symbol, {})
BookOf(symbol) ==
  [ bids |-> IF Has(symbol_bids, symbol) THEN symbol_bids[symbol] ELSE EmptyDict,
    asks |-> IF Has(symbol_asks, symbol) THEN symbol_asks[symbol] ELSE EmptyDict,
    tick |-> ticks[symbol],
    raised |-> "none",
    emitted |-> None ]

\* ------------------------------------------------------------------------
\* The depth packets of the venue
\* ------------------------------------------------------------------------
BookSymbol == "BTCUSDT"

\* a snapshot lists the levels 1..nb of the bids and 1..na of the asks
Levels(side, n, size) == [i \in 1..n |-> [price |-> i, side |-> side, size |-> size]]

SnapshotPackets ==
  { [topic |-> BookSymbol, type |-> "snapshot",
     data |-> Levels("Buy", nb, 1) \o Levels("Sell", na, 1)] :
      nb \in { 3, Depth }, na \in { 3, Depth } }

\* a delta changes the prices 1 and 6 of one side: up to two deletes, up to one
\* update and up to one insert
DeltaPrices == { 1, Depth + 1 }
DeltaLists(E, n) == UNION { [1..k -> E] : k \in 0..n }
DeltaPackets ==
  UNION { { [topic |-> BookSymbol, type |-> "delta",
             data |-> [delete |-> del, update |-> upd, insert |-> ins]] :
              del \in DeltaLists({ [price |-> p, side |-> side] : p \in DeltaPrices }, 2),
              upd \in DeltaLists({ [price |-> p, side |-> side, size |-> 2] : p \in DeltaPrices }, 1),
              ins \in DeltaLists({ [price |-> p, side |-> side, size |-> 2] : p \in DeltaPrices }, 1) } :
          side \in { "Buy", "Sell" } }

\* a packet of the orderBookL2_25 topic arrives and on_depth handles it; the
\* first packet of the topic is a snapshot, deltas follow it
HandleDepth(packet) ==
  LET b == on_depth(BookOf(packet.topic), packet)
  IN /\ symbol_bids' = Put(symbol_bids, packet.topic, b.bids)
     /\ symbol_asks' = Put(symbol_asks, packet.topic, b.asks)
     /\ ticks' = Put(ticks, packet.topic, b.tick)
     /\ raised' = b.raised
     /\ tick_emitted' = b.emitted
     /\ handled' = packet.type

OnDepth ==
  /\ \/ \E packet \in SnapshotPackets : HandleDepth(packet)
     \/ /\ handled # "none"
        /\ \E packet \in DeltaPackets : HandleDepth(packet)
  /\ UNCHANGED other_than_book

\* after subscribe(BookSymbol): the tick exists, no depth packet has arrived
BookInit ==
  /\ ticks = Put(EmptyDict, BookSymbol, NewTick)
  /\ symbol_bids = EmptyDict
  /\ symbol_asks = EmptyDict
  /\ handled = "none"
  /\ raised = "none"
  /\ tick_emitted = None

\* ------------------------------------------------------------------------
\* BybitRestApi.query_history
\* ------------------------------------------------------------------------
\* count = 200: the "limit" of a request
count == 200

\* in seconds
TIMEDELTA_MAP ==
  [ MINUTE |-> 60, HOUR |-> 3600, DAILY |-> 86400, WEEKLY |-> 604800 ]

\* datetime.fromtimestamp(ts): the naive wall clock of the local timezone
fromtimestamp(ts, offset) == ts + offset

\* dt.replace(tzinfo=UTC_TZ): the instant that has this wall clock in UTC
replace_tzinfo_utc(naive) == naive

\* dt.timestamp() of an aware datetime, held as its instant
timestamp(dt) == dt

\* the BarData built from one entry of the result
bar_of(d, offset) ==
  [ datetime |-> replace_tzinfo_utc(fromtimestamp(d.open_time, offset)) ]

\* buf: the bars of one result list
bars_of(result, offset) == [i \in 1..Len(result) |-> bar_of(result[i], offset)]

\* the state of one call of query_history
HistoryCall ==
  [ pc |-> hist_pc, start_time |-> start_time, history |-> history, logged |-> hist_logged ]

\* a variant: an empty result is logged and the request is sent again
query_history_loop_retry(h, req, resp, offset) ==
  IF resp.status_code \div 100 # 2
  THEN [h EXCEPT !.pc = "done", !.logged = Append(@, "failed")]
  ELSE IF resp.ret_code # 0
  THEN [h EXCEPT !.pc = "done", !.logged = Append(@, "error")]
  ELSE IF resp.result = <<>>
  THEN [h EXCEPT !.logged = Append(@, "empty")]
  ELSE LET buf == bars_of(resp.result, offset)
           h1 == [h EXCEPT !.history = @ \o buf, !.logged = Append(@, "success")]
       IN IF Len(buf) < count
          THEN [h1 EXCEPT !.pc = "done"]
          ELSE [h1 EXCEPT !.start_time =
                  timestamp(buf[Len(buf)].datetime + TIMEDELTA_MAP[req.interval])]

\* one round of while True, from the response of the request on
query_history_loop(h, req, resp, offset) ==
  IF resp.status_code \div 100 # 2
  THEN [h EXCEPT !.pc = "done", !.logged = Append(@, "failed")]
  ELSE IF resp.ret_code # 0
  THEN [h EXCEPT !.pc = "done", !.logged = Append(@, "error")]
  ELSE IF resp.result = <<>>
  THEN [h EXCEPT !.pc = "done", !.logged = Append(@, "empty")]
  ELSE LET buf == bars_of(resp.result, offset)
           h1 == [h EXCEPT !.history = @ \o buf, !.logged = Append(@, "success")]
       IN IF Len(buf) < count
          THEN [h1 EXCEPT !.pc = "done"]
          ELSE [h1 EXCEPT !.start_time =
                  timestamp(buf[Len(buf)].datetime + TIMEDELTA_MAP[req.interval])]

\* ------------------------------------------------------------------------
\* The venue's kline list and the calls of query_history
\* ------------------------------------------------------------------------
\* the requests a call may send before the model stops following it
MaxRequests == 4

\* the local timezones: UTC, Asia/Shanghai, America/New_York (standard time)
UtcOffsets == { 0, 28800, 0 - 18000 }

\* the numbers of bars the venue may hold from the start of the request on
Totals == { 37, 200, 237, 400, 437, 700 }

\* the venue holds the bars start, start + interval, ... and answers a request
\* with the first "limit" bars that open at or after "from"
Klines(req, total, from, limit) ==
  LET delta == TIMEDELTA_MAP[req.interval]
      k0 == IF from <= req.start THEN 0 ELSE (from - req.start + delta - 1) \div delta
      left == IF total > k0 THEN total - k0 ELSE 0
      n == IF left < limit THEN left ELSE limit
  IN [i \in 1..n |-> [open_time |-> req.start + (k0 + i - 1) * delta]]

KlineResponses(req, total, from, limit) ==
  { [status_code |-> 200, ret_code |-> 0, result |-> Klines(req, total, from, limit)],
    [status_code |-> 200, ret_code |-> 10001, result |-> <<>>],
    [status_code |-> 502, ret_code |-> 0, result |-> <<>>] }

\* query_history(req) is called: history = [], start_time = int(req.start.timestamp())
QueryHistory ==
  /\ hist_pc \in { "idle", "done" }
  /\ \E interval \in DOMAIN TIMEDELTA_MAP, offset \in UtcOffsets, total \in Totals :
       /\ hist_req' = [interval |-> interval, start |-> 0]
       /\ utc_offset' = offset
       /\ kline_total' = total
  /\ hist_pc' = "loop"
  /\ history' = <<>>
  /\ start_time' = timestamp(hist_req'.start)
  /\ hist_from' = <<>>
  /\ hist_pages' = <<>>
  /\ hist_logged' = <<>>
  /\ UNCHANGED other_than_history

\* one round of while True: the request is sent, the venue answers, the
\* answer is handled
QueryHistoryLoop ==
  /\ hist_pc = "loop"
  /\ Len(hist_from) < MaxRequests
  /\ \E resp \in KlineResponses(hist_req, kline_total, start_time, count) :
       LET h == query_history_loop(HistoryCall, hist_req, resp, utc_offset)
       IN /\ hist_from' = Append(hist_from, start_time)
          /\ hist_pages' = Append(hist_pages, resp.result)
          /\ hist_pc' = h.pc
          /\ start_time' = h.start_time
          /\ history' = h.history
          /\ hist_logged' = h.logged
  /\ UNCHANGED << hist_req, utc_offset, kline_total >>
  /\ UNCHANGED other_than_history

HistoryInit ==
  /\ hist_pc = "idle"
  /\ hist_req = [interval |-> "MINUTE", start |-> 0]
  /\ start_time = 0
  /\ history = <<>>
  /\ hist_from = <<>>
  /\ hist_pages = <<>>
  /\ hist_logged = <<>>
  /\ utc_offset = 0
  /\ kline_total = 0

\* ------------------------------------------------------------------------
\* BybitWebsocketApi, BybitPublicWebsocketApi, BybitGateway.subscribe: the
\* channels and their subscriptions
\* ------------------------------------------------------------------------
Topic(name, symbol) == [name |-> name, symbol |-> symbol]

PrivateTopics == { Topic(n, "") : n \in { "order", "execution", "position", "wallet" } }

IsMarketTopic(topic) == topic.name \in { "instrument_info.100ms", "orderBookL2_25" }

AuthFrame == [ch |-> "private", op |-> "auth", topic |-> Topic("", "")]

SubscribeFrame(ch, topic) == [ch |-> ch, op |-> "subscribe", topic |-> topic]

\* the two channels, the ticks and what a handler sends and logs
Session ==
  [ up |-> ws_up, login |-> ws_login, subscribed |-> subscribed,
    callbacks |-> callbacks, ticks |-> ticks, sent |-> sent, logged |-> <<>>,
    raised |-> "none" ]

\* WebsocketClient.send_packet: the frame goes out on a connected transport
send_packet(s, ch, frame) ==
  IF s.up[ch] THEN [s EXCEPT !.sent = Append(@, frame)] ELSE s

subscribe_topic(s, ch, topic) ==
  send_packet([s EXCEPT !.callbacks[ch] = @ \cup { topic }], ch, SubscribeFrame(ch, topic))

\* self.subscribed[req.symbol] = req: a new key goes to the end
Remember(symbols, symbol) ==
  IF \E i \in 1..Len(symbols) : symbols[i] = symbol THEN symbols ELSE Append(symbols, symbol)

\* subscribe(req) of a channel
ws_subscribe(s, ch, symbol) ==
  LET s1 == [s EXCEPT !.subscribed[ch] = Remember(@, symbol),
                      !.ticks = Put(@, symbol, NewTick)]
      s2 == subscribe_topic(s1, ch, Topic("instrument_info.100ms", symbol))
  IN subscribe_topic(s2, ch, Topic("orderBookL2_25", symbol))

\* for req in self.subscribed.values(): self.subscribe(req)
RECURSIVE resubscribe(_, _, _)
resubscribe(s, ch, symbols) ==
  IF symbols = <<>> THEN s
  ELSE resubscribe(ws_subscribe(s, ch, Head(symbols)), ch, Tail(symbols))

\* BybitGateway.subscribe
gateway_subscribe(s, usdt, symbol) ==
  ws_subscribe(s, IF usdt THEN "public" ELSE "private", symbol)

\* a variant: the auth frame is made but not sent
login_nosend(s) == [s EXCEPT !.login = "sent"]

\* BybitWebsocketApi.login
login(s) == [send_packet(s, "private", AuthFrame) EXCEPT !.login = "sent"]

\* BybitWebsocketApi.on_connected
private_on_connected(s) ==
  login([s EXCEPT !.up["private"] = TRUE, !.logged = Append(@, "private connected")])

\* BybitPublicWebsocketApi.on_connected
public_on_connected(s) ==
  LET s1 == [s EXCEPT !.up["public"] = TRUE, !.logged = Append(@, "public connected")]
  IN resubscribe(s1, "public", s1.subscribed["public"])

\* a variant: the private topics are subscribed, the remembered symbols are not
on_login_noresub(s, usdt, success) ==
  IF success
  THEN LET s1 == [s EXCEPT !.login = "ok", !.logged = Append(@, "login ok")]
           s2 == subscribe_topic(s1, "private", Topic("order", ""))
           s3 == subscribe_topic(s2, "private", Topic("execution", ""))
           s4 == subscribe_topic(s3, "private", Topic("position", ""))
       IN IF usdt THEN subscribe_topic(s4, "private", Topic("wallet", "")) ELSE s4
  ELSE [s EXCEPT !.login = "failed", !.logged = Append(@, "login failed")]

\* BybitWebsocketApi.on_login
on_login(s, usdt, success) ==
  IF success
  THEN LET s1 == [s EXCEPT !.login = "ok", !.logged = Append(@, "login ok")]
           s2 == subscribe_topic(s1, "private", Topic("order", ""))
           s3 == subscribe_topic(s2, "private", Topic("execution", ""))
           s4 == subscribe_topic(s3, "private", Topic("position", ""))
           s5 == IF usdt THEN subscribe_topic(s4, "private", Topic("wallet", "")) ELSE s4
       IN resubscribe(s5, "private", s5.subscribed["private"])
  ELSE [s EXCEPT !.login = "failed", !.logged = Append(@, "login failed")]

\* BybitWebsocketApi.on_disconnected; the public channel has no handler of its own
on_disconnected(s) ==
  [s EXCEPT !.logged = IF s.up["private"] THEN Append(@, "private disconnected") ELSE @,
            !.up = [ch \in DOMAIN s.up |-> FALSE],
            !.login = "none"]

\* on_packet(packet) of a channel: packet["request"], packet["request"]["op"]
\* and self.callbacks[channel] raise KeyError when the key is not there. The
\* callback of a topic that is registered is a step of its own (OnOrder,
\* OnDepth).
on_packet(s, ch, usdt, packet) ==
  IF ~Has(packet, "topic")
  THEN IF ~Has(packet, "request") THEN [s EXCEPT !.raised = "KeyError"]
       ELSE IF ~Has(packet.request, "op") THEN [s EXCEPT !.raised = "KeyError"]
       ELSE IF packet.request.op = "auth"
       THEN on_login(s, usdt, IF Has(packet, "success") THEN packet.success ELSE FALSE)
       ELSE s
  ELSE IF packet.topic \notin s.callbacks[ch] THEN [s EXCEPT !.raised = "KeyError"]
       ELSE s

StoreSession(s) ==
  /\ ws_up' = s.up
  /\ ws_login' = s.login
  /\ subscribed' = s.subscribed
  /\ callbacks' = s.callbacks
  /\ ticks' = s.ticks
  /\ sent' = s.sent
  /\ ws_logged' = s.logged
  /\ ws_raised' = s.raised

\* ------------------------------------------------------------------------
\* The caller's subscriptions, the transports and the venue's auth answers
\* ------------------------------------------------------------------------
SessionSymbols == { "BTCUSDT", "ETHUSDT" }

\* the symbols the caller subscribes when the gateway is in inverse mode
InverseSymbols == { "BTCUSD", "ETHUSD" }

SymbolsOf(q) == { q[i] : i \in 1..Len(q) }

\* the channel BybitGateway.subscribe hands the market data to
MarketChannel == IF usdt_base THEN "public" ELSE "private"

\* the symbols of the contract mode the caller may subscribe
CallerSymbols == IF usdt_base THEN SessionSymbols ELSE InverseSymbols

\* the caller subscribes a symbol it has not subscribed yet
Subscribe ==
  /\ \E symbol \in CallerSymbols \ SymbolsOf(subscribed[MarketChannel]) :
       StoreSession(gateway_subscribe(Session, usdt_base, symbol))
  /\ UNCHANGED remembered
  /\ UNCHANGED other_than_session

\* the transport of the private channel connects
PrivateConnected ==
  /\ ~ws_up["private"]
  /\ StoreSession(private_on_connected(Session))
  /\ UNCHANGED remembered
  /\ UNCHANGED other_than_session

\* the venue answers the auth frame
PrivateLogin ==
  /\ ws_up["private"]
  /\ ws_login = "sent"
  /\ \E success \in BOOLEAN : StoreSession(on_login(Session, usdt_base, success))
  /\ UNCHANGED remembered
  /\ UNCHANGED other_than_session

\* the transport of the public channel connects
PublicConnected ==
  /\ usdt_base
  /\ ~ws_up["public"]
  /\ StoreSession(public_on_connected(Session))
  /\ UNCHANGED remembered
  /\ UNCHANGED other_than_session

\* the packets of a connected channel that carry no topic: the answer to a
\* pending auth frame, the answer to a subscribe frame, a packet with neither
\* topic nor request, a packet whose request has no op
RequestPackets(ch) ==
  { [request |-> [op |-> "subscribe"], success |-> TRUE] }
  \cup (IF ch = "private" /\ ws_login = "sent"
        THEN { [request |-> [op |-> "auth"], success |-> b] : b \in BOOLEAN }
           \cup { [request |-> [op |-> "auth"]] }
        ELSE {})
  \cup { [success |-> TRUE] }
  \cup { [request |-> [args |-> <<>>], success |-> TRUE] }

\* the packets of a topic for which the channel has no callback
UnknownTopics == { Topic("stop_order", ""), Topic("trade", "BTCUSD") }
TopicPackets(ch) ==
  { [topic |-> t, data |-> <<>>] : t \in UnknownTopics \ callbacks[ch] }

\* a packet arrives on a connected channel and on_packet handles it
OnPacket ==
  /\ \E ch \in DOMAIN ws_up :
       /\ ws_up[ch]
       /\ \/ \E packet \in RequestPackets(ch) :
               StoreSession(on_packet(Session, ch, usdt_base, packet))
          \/ \E packet \in TopicPackets(ch) :
               StoreSession(on_packet(Session, ch, usdt_base, packet))
  /\ UNCHANGED remembered
  /\ UNCHANGED other_than_session

\* the network drops: every connected transport is closed, and the client of
\* each channel connects again on its own
ForcedDisconnect ==
  /\ \E ch \in DOMAIN ws_up : ws_up[ch]
  /\ StoreSession([on_disconnected(Session) EXCEPT !.sent = <<>>])
  /\ remembered' = SymbolsOf(subscribed[MarketChannel])
  /\ UNCHANGED other_than_session

\* after connect() in USDT mode and subscribe(BookSymbol): both channels are
\* started, neither transport is connected yet
SessionInit ==
  /\ ws_up = [private |-> FALSE, public |-> FALSE]
  /\ ws_login = "none"
  /\ subscribed = [private |-> <<>>, public |-> << BookSymbol >>]
  /\ callbacks = [private |-> {},
                  public |-> { Topic("instrument_info.100ms", BookSymbol),
                               Topic("orderBookL2_25", BookSymbol) }]
  /\ sent = <<>>
  /\ ws_logged = <<>>
  /\ remembered = {}
  /\ ws_raised = "none"

\* ------------------------------------------------------------------------
\* The orders of a gateway connected in USDT mode
\* ------------------------------------------------------------------------
OrdersInit ==
  /\ order_count = 0
  /\ orders = EmptyDict
  /\ local_sys_orderid_map = EmptyDict
  /\ sys_local_orderid_map = EmptyDict
  /\ usdt_base = TRUE
  /\ create_requests = EmptyDict
  /\ order_list_requests = query_order(EmptyDict, TRUE, 1)
  /\ venue_orders = EmptyDict
  /\ emitted = <<>>
  /\ logged = <<>>
  /\ last_ack = NoId
  /\ acked = {}
  /\ pushed = {}

\* no handler is running
ThreadsInit ==
  /\ ws_pc = "idle"
  /\ ws_d = None
  /\ ws_order = None
  /\ rest_pc = "idle"
  /\ rest_l = NoId

\* no cancel request has been sent
CancelInit ==
  /\ cancel_sent = <<>>
  /\ cancel_requests = {}
  /\ cancel_answered = {}

\* connect(setting): rest_api.connect, ws_api.connect and, in USDT mode,
\* public_ws_api.connect have started their clients
connect(usdt) == [ rest |-> TRUE, private |-> TRUE, public |-> usdt ]

\* close(): rest_api.stop(), ws_api.stop()
close(clients) == [clients EXCEPT !.rest = FALSE, !.private = FALSE]

\* after connect() in USDT mode
LifeInit ==
  /\ running = connect(TRUE)
  /\ closed = FALSE

Init ==
  /\ OrdersInit /\ BookInit /\ HistoryInit /\ SessionInit /\ ThreadsInit /\ CancelInit
  /\ LifeInit
  /\ trade_emitted = <<>>

Next ==
  \/ send_order
  \/ VenueCreate
  \/ VenueExternal
  \/ OnSendOrder
  \/ OnSendOrderFailed
  \/ OnSendOrderError
  \/ OnOrder
  \/ OnQueryOrder

Spec == Init /\ [][Next]_vars

\* ------------------------------------------------------------------------
\* The same, with a venue that may acknowledge a submission with the venue id
\* of another order
\* ------------------------------------------------------------------------
LocalIds == { L(n) : n \in 1..order_count }

Ack(l, v) == [ret_code |-> 0, result |-> [order_link_id |-> l, order_id |-> v]]

\* the response to the create request of local id l: a refusal, or an
\* acknowledgment with the venue id of any order the venue holds
OnSendOrderAny ==
  /\ \E l \in DOMAIN create_requests :
     \E data \in { Ack(l, v) : v \in VenueIds } \cup { [ret_code |-> 10001, result |-> None] } :
       /\ StoreManager(on_send_order(Manager, data))
       /\ create_requests' = [k \in (DOMAIN create_requests) \ {l} |-> create_requests[k]]
       /\ last_ack' = IF check_error(data) THEN NoId ELSE << l, data.result.order_id >>
  /\ UNCHANGED << usdt_base, order_list_requests, venue_orders, acked, pushed >>
  /\ UNCHANGED other_than_orders

NextFaulty ==
  \/ send_order
  \/ VenueCreate
  \/ VenueExternal
  \/ OnSendOrderAny
  \/ OnSendOrderFailed
  \/ OnSendOrderError
  \/ OnOrderT(FALSE)
  \/ OnQueryOrder

SpecFaulty == Init /\ [][NextFaulty]_vars

\* ------------------------------------------------------------------------
\* The order book of one subscribed symbol
\* ------------------------------------------------------------------------
NextBook == OnDepth

SpecBook == Init /\ [][NextBook]_vars

\* ------------------------------------------------------------------------
\* The calls of query_history
\* ------------------------------------------------------------------------
NextHistory == QueryHistory \/ QueryHistoryLoop

SpecHistory == Init /\ [][NextHistory]_vars

\* ------------------------------------------------------------------------
\* The channels of a gateway connected in USDT mode
\* ------------------------------------------------------------------------
NextSession ==
  \/ Subscribe
  \/ PrivateConnected
  \/ PrivateLogin
  \/ PublicConnected
  \/ ForcedDisconnect

SpecSession == Init /\ [][NextSession]_vars

\* ------------------------------------------------------------------------
\* The channels of a gateway connected in either contract mode
\* ------------------------------------------------------------------------
\* the symbol subscribed before the transports connect, in inverse mode
InverseSymbol == "BTCUSD"

\* after connect() in inverse mode and subscribe(InverseSymbol): the private
\* channel is started and carries the market data, the public one is not used
InitInverse ==
  /\ order_count = 0
  /\ orders = EmptyDict
  /\ local_sys_orderid_map = EmptyDict
  /\ sys_local_orderid_map = EmptyDict
  /\ usdt_base = FALSE
  /\ create_requests = EmptyDict
  /\ order_list_requests = query_order(EmptyDict, FALSE, 1)
  /\ venue_orders = EmptyDict
  /\ emitted = <<>>
  /\ logged = <<>>
  /\ last_ack = NoId
  /\ acked = {}
  /\ pushed = {}
  /\ ticks = Put(EmptyDict, InverseSymbol, NewTick)
  /\ symbol_bids = EmptyDict
  /\ symbol_asks = EmptyDict
  /\ handled = "none"
  /\ raised = "none"
  /\ tick_emitted = None
  /\ HistoryInit
  /\ ws_up = [private |-> FALSE, public |-> FALSE]
  /\ ws_login = "none"
  /\ subscribed = [private |-> << InverseSymbol >>, public |-> <<>>]
  /\ callbacks = [private |-> { Topic("instrument_info.100ms", InverseSymbol),
                                Topic("orderBookL2_25", InverseSymbol) },
                  public |-> {}]
  /\ sent = <<>>
  /\ ws_logged = <<>>
  /\ remembered = {}
  /\ ws_raised = "none"
  /\ ThreadsInit
  /\ CancelInit
  /\ running = connect(FALSE)
  /\ closed = FALSE
  /\ trade_emitted = <<>>

InitChannels == Init \/ InitInverse

NextChannels == NextSession \/ OnPacket

SpecChannels == InitChannels /\ [][NextChannels]_vars

\* ------------------------------------------------------------------------
\* Properties of the identity map
\* ------------------------------------------------------------------------
\* the ids under which an order record is kept for the pair (l, v)
RecordsOf(m, l, v) == { k \in DOMAIN m.orders : k \in { l, v } }
\* the bindings of the map that mention l or v
BindingsOf(m, l, v) ==
  { << k, m.local_sys[k] >> : k \in { x \in DOMAIN m.local_sys : x = l \/ m.local_sys[x] = v } }
  \cup
  { << m.sys_local[k], k >> : k \in { x \in DOMAIN m.sys_local : x = v \/ m.sys_local[x] = l } }
\* the map holds the pair and nothing else about l or v, there is one record
\* of the order, and both lookups give it
Converged(m, l, v) ==
  /\ BindingsOf(m, l, v) = { << l, v >> }
  /\ RecordsOf(m, l, v) = { l }
  /\ get_order_with_sys_orderid(m, v) = get_order_with_local_orderid(m, l)
  /\ get_order_with_local_orderid(m, l) # None
  /\ get_sys_orderid(m, l) = v

\* C1: for every pair of a local id and the venue id the venue gave it, once
\* the REST acknowledgment and a push order update of the pair have both been
\* handled, whichever came first, the map holds exactly the one binding of
\* the pair, one order record exists for it, and the lookups by local id and
\* by venue id give the same order.
C1_EitherOrderConverges ==
  \A v \in VenueIds :
    (venue_orders[v] # NoId /\ << venue_orders[v], v >> \in acked /\ v \in pushed)
      => Converged(Manager, venue_orders[v], v)

\* both events of L1/V1 have been handled and the last one was the push update
C1_Witness ==
  /\ << L(1), V(1) >> \in acked
  /\ V(1) \in pushed
  /\ emitted # <<>>
  /\ emitted[1].orderid = L(1)
  /\ emitted[1].status = "NOTTRADED"
  /\ Converged(Manager, L(1), V(1))

\* C2: once the acknowledgment has bound a submitted local id to its venue
\* id, a push update of that venue id reporting Filled leaves the record of
\* the local id with that venue id and status ALLTRADED, and leaves exactly
\* one record of the order: none is kept under the venue id.
C2_AckThenFilledPush ==
  \A v \in VenueIds :
    LET l == venue_orders[v]
        m == on_order(Manager,
               << [order_id |-> v, order_link_id |-> l, order_status |-> "Filled"] >>)
    IN (l # NoId /\ << l, v >> \in acked)
         => /\ Converged(m, l, v)
            /\ m.orders[l].status = "ALLTRADED"
            /\ m.emitted = << m.orders[l] >>
            /\ DOMAIN m.orders = DOMAIN orders

\* L1 was acknowledged as V1 and the push update that reported Filled was the
\* last thing handled
C2_Witness ==
  /\ << L(1), V(1) >> \in acked
  /\ V(1) \in pushed
  /\ emitted = << [orderid |-> L(1), status |-> "ALLTRADED"] >>
  /\ orders[L(1)].status = "ALLTRADED"
  /\ local_sys_orderid_map[L(1)] = V(1)
  /\ V(1) \notin DOMAIN orders

\* C3: a push update of a venue id that the map does not hold and that carries
\* no order_link_id binds the venue id to itself as local id, creates a record
\* under that id where there was none, and emits it as an order event.
C3_UnboundNoHint ==
  \A v \in VenueIds : \A s \in ReportedStatus :
    LET m == on_order(Manager,
               << [order_id |-> v, order_link_id |-> NoId, order_status |-> s] >>)
    IN (venue_orders[v] = NoId /\ ~Has(sys_local_orderid_map, v))
         => /\ ~Has(orders, v)
            /\ Converged(m, v, v)
            /\ m.orders[v] = [orderid |-> v, status |-> STATUS_BYBIT2VT[s]]
            /\ m.emitted = << m.orders[v] >>

\* the order placed from another source was bound and emitted by the last handler
C3_Witness ==
  /\ Has(venue_orders, ExternalId)
  /\ ExternalId \in pushed
  /\ Has(sys_local_orderid_map, ExternalId)
  /\ sys_local_orderid_map[ExternalId] = ExternalId
  /\ emitted = << [orderid |-> ExternalId, status |-> "PARTTRADED"] >>
  /\ orders[ExternalId] = emitted[1]

Range(q) == { q[i] : i \in DOMAIN q }

\* every binding is held in both directions
OneToOne(m) ==
  /\ \A l \in DOMAIN m.local_sys :
       Has(m.sys_local, m.local_sys[l]) /\ m.sys_local[m.local_sys[l]] = l
  /\ \A v \in DOMAIN m.sys_local :
       Has(m.local_sys, m.sys_local[v]) /\ m.local_sys[m.sys_local[v]] = v

Thin(book) == Cardinality(DOMAIN book.bids) < Depth \/ Cardinality(DOMAIN book.asks) < Depth

TopOf(keys) == IF Len(keys) < Depth THEN Len(keys) ELSE Depth

\* the tick reports the levels the two sides hold, best first
ReportsLevels(tick, book) ==
  LET bid_keys == sorted(DOMAIN book.bids, TRUE)
      ask_keys == sorted(DOMAIN book.asks, FALSE)
  IN /\ \A n \in 1..TopOf(bid_keys) :
          /\ tick.bid_price[n] = bid_keys[n]
          /\ tick.bid_volume[n] = book.bids[bid_keys[n]]
     /\ \A n \in 1..TopOf(ask_keys) :
          /\ tick.ask_price[n] = ask_keys[n]
          /\ tick.ask_volume[n] = book.asks[ask_keys[n]]

\* C4: after a snapshot and any deltas that on_depth has put into the book,
\* when a side holds fewer than 5 levels the handler has completed without an
\* exception and has emitted a tick that reports the levels the sides hold.
C4_ThinBookNoFault ==
  (/\ handled # "none"
   /\ raised # "KeyError"
   /\ Thin(BookOf(BookSymbol)))
  => /\ raised = "none"
     /\ tick_emitted # None
     /\ ReportsLevels(tick_emitted, BookOf(BookSymbol))

\* C5: for every book on_depth can reach and every delta, on_depth applied
\* twice in a row with the delta leaves the bids and the asks as on_depth
\* applied once does.
C5_DeltaIdempotent ==
  handled # "none" =>
    \A packet \in DeltaPackets :
      LET once == on_depth(BookOf(BookSymbol), packet)
          twice == on_depth(once, packet)
      IN /\ twice.bids = once.bids
         /\ twice.asks = once.asks

\* ------------------------------------------------------------------------
\* C6: query_history
\* ------------------------------------------------------------------------
RECURSIVE Concat(_)
Concat(pages) == IF pages = <<>> THEN <<>> ELSE Head(pages) \o Concat(Tail(pages))

\* every page but the last holds exactly count bars, the last holds fewer, not none
FullThenShort(pages) ==
  /\ Len(pages) >= 1
  /\ \A i \in 1..(Len(pages) - 1) : Len(pages[i]) = count
  /\ Len(pages[Len(pages)]) > 0
  /\ Len(pages[Len(pages)]) < count

Ceil(a, b) == (a + b - 1) \div b

\* no bar is twice in the list
NoDuplicate(bars) ==
  \A i, j \in 1..Len(bars) : i # j => bars[i].datetime # bars[j].datetime

\* C6: when the venue has returned count (200) bars for every page but a
\* last, shorter one, the call has returned, it has sent one request per page,
\* which is ceil(total / count) requests for the total of the bars the venue
\* holds, and the list it returns is the bars of the pages in order, with no
\* bar of the venue missing and no bar twice.
C6_PagesUntilShort ==
  FullThenShort(hist_pages) =>
    /\ hist_pc = "done"
    /\ Len(hist_from) = Len(hist_pages)
    /\ Len(hist_from) = Ceil(kline_total, count)
    /\ history = bars_of(Concat(hist_pages), utc_offset)
    /\ Len(history) = kline_total
    /\ NoDuplicate(history)

\* ------------------------------------------------------------------------
\* C7: resubscription after a disconnect
\* ------------------------------------------------------------------------
IsPrivateSubscribe(frame) == frame.op = "subscribe" /\ frame.topic \in PrivateTopics

IsMarketSubscribe(frame) == frame.op = "subscribe" /\ IsMarketTopic(frame.topic)

\* C7: when two symbols were subscribed at the disconnect and the private
\* channel has connected and logged in again, every subscribe frame of a
\* private topic sent since the disconnect was sent before every subscribe
\* frame of a market-data topic.
C7_PrivateBeforeMarket ==
  (/\ remembered = SessionSymbols
   /\ ws_up["private"]
   /\ ws_login = "ok")
  => \A i, j \in 1..Len(sent) :
       (IsPrivateSubscribe(sent[i]) /\ IsMarketSubscribe(sent[j])) => i < j

\* ------------------------------------------------------------------------
\* The order list of a gateway connected in inverse mode: connect() has called
\* query_order(), one request per symbol of symbols_inverse is in flight
\* ------------------------------------------------------------------------
NextOrderList ==
  \/ VenueExternal
  \/ OnQueryOrder

SpecOrderList == InitInverse /\ [][NextOrderList]_vars

\* ------------------------------------------------------------------------
\* The push thread and a REST worker, step by step: on_order looks the order
\* of an entry up and then stores it, on_send_order_error sets the status of
\* the order of the request and then stores it
\* ------------------------------------------------------------------------
\* on_order, for one entry: order = get_order_with_sys_orderid(sys_orderid)
WsOrderLookup ==
  /\ ws_pc = "idle"
  /\ \E d \in VenueEntries :
       /\ ws_d' = d
       /\ ws_order' = get_order_with_sys_orderid(Manager, d.order_id)
  /\ ws_pc' = "entry"
  /\ UNCHANGED << rest_pc, rest_l >>
  /\ UNCHANGED order_vars
  /\ UNCHANGED other_than_threads

\* on_order, for that entry: the rest of the body of the loop
WsOrderStore ==
  /\ ws_pc = "entry"
  /\ StoreHandler(on_order_entry_from(Manager, ws_d, ws_order))
  /\ pushed' = pushed \cup { ws_d.order_id }
  /\ ws_pc' = "idle"
  /\ ws_d' = None
  /\ ws_order' = None
  /\ UNCHANGED << rest_pc, rest_l >>
  /\ UNCHANGED << usdt_base, create_requests, order_list_requests, venue_orders, acked >>
  /\ UNCHANGED other_than_threads

\* on_send_order_error: order = request.extra; order.status = Status.REJECTED
RestErrorMark ==
  /\ rest_pc = "idle"
  /\ \E l \in DOMAIN create_requests :
       /\ rest_l' = l
       /\ create_requests' = [create_requests EXCEPT ![l].status = "REJECTED"]
  /\ rest_pc' = "rejecting"
  /\ UNCHANGED << ws_pc, ws_d, ws_order >>
  /\ UNCHANGED << order_count, orders, local_sys_orderid_map, sys_local_orderid_map,
                  usdt_base, order_list_requests, venue_orders,
                  emitted, logged, last_ack, acked, pushed >>
  /\ UNCHANGED other_than_threads

\* on_send_order_error: order_manager.on_order(order), and on_error unless the
\* exception is a ConnectionError
RestErrorStore ==
  /\ rest_pc = "rejecting"
  /\ \E t \in { "ConnectionError", "JSONDecodeError" } :
       StoreHandler(on_send_order_error(Manager, t, create_requests[rest_l]))
  /\ create_requests' =
       [k \in (DOMAIN create_requests) \ {rest_l} |-> create_requests[k]]
  /\ rest_pc' = "idle"
  /\ rest_l' = NoId
  /\ UNCHANGED << ws_pc, ws_d, ws_order >>
  /\ UNCHANGED << usdt_base, order_list_requests, venue_orders, acked, pushed >>
  /\ UNCHANGED other_than_threads

\* a create request that a worker has taken is answered by that worker only
OnSendOrderIdle == rest_pc = "idle" /\ OnSendOrder

NextThreads ==
  \/ send_order
  \/ VenueCreate
  \/ VenueExternal
  \/ OnSendOrderIdle
  \/ WsOrderLookup
  \/ WsOrderStore
  \/ RestErrorMark
  \/ RestErrorStore

SpecThreads == Init /\ [][NextThreads]_vars

\* ------------------------------------------------------------------------
\* Orders and their cancel requests
\* ------------------------------------------------------------------------
\* the cancel requests a run may send
MaxCancels == 2

\* the gateway's cancel_order(req) is called for an order the caller knows
CancelOrder ==
  /\ Len(cancel_sent) < MaxCancels
  /\ \E orderid \in DOMAIN orders :
       /\ \A i \in cancel_requests : cancel_sent[i].req_orderid # orderid
       /\ cancel_sent' = Append(cancel_sent, cancel_order(Manager, [orderid |-> orderid]))
  /\ cancel_requests' = cancel_requests \cup { Len(cancel_sent) + 1 }
  /\ UNCHANGED cancel_answered
  /\ UNCHANGED order_vars
  /\ UNCHANGED other_than_cancel

\* the venue's answers to a cancel request: done, or an error code
CancelResponses ==
  { [ret_code |-> 0, result |-> None], [ret_code |-> 20001, result |-> None] }

\* the answer to a cancel request arrives
OnCancelOrder ==
  /\ \E i \in cancel_requests : \E data \in CancelResponses :
       /\ StoreHandler(on_cancel_order(Manager, data, cancel_sent[i]))
       /\ cancel_requests' = cancel_requests \ { i }
       /\ cancel_answered' = { << i, data.ret_code >> }
  /\ UNCHANGED cancel_sent
  /\ UNCHANGED << usdt_base, create_requests, order_list_requests, venue_orders,
                  acked, pushed >>
  /\ UNCHANGED other_than_cancel

\* a cancel request ends with an exception: it was queued with no on_error of
\* its own
OnCancelOrderError ==
  /\ \E i \in cancel_requests : \E t \in { "ConnectionError", "JSONDecodeError" } :
       /\ StoreHandler(on_error(Manager, t, cancel_sent[i]))
       /\ cancel_requests' = cancel_requests \ { i }
  /\ UNCHANGED << cancel_sent, cancel_answered >>
  /\ UNCHANGED << usdt_base, create_requests, order_list_requests, venue_orders,
                  acked, pushed >>
  /\ UNCHANGED other_than_cancel

NextCancel ==
  \/ send_order
  \/ VenueCreate
  \/ OnSendOrder
  \/ OnOrder
  \/ CancelOrder
  \/ OnCancelOrder
  \/ OnCancelOrderError

SpecCancel == Init /\ [][NextCancel]_vars

\* ------------------------------------------------------------------------
\* The channels of a gateway that may be closed: the transport of a client
\* connects only while the client is running
\* ------------------------------------------------------------------------
\* the gateway's close() is called: a stopped client closes its transport
Close ==
  /\ ~closed
  /\ closed' = TRUE
  /\ running' = close(running)
  /\ ws_up' = [ch \in DOMAIN ws_up |-> ws_up[ch] /\ running'[ch]]
  /\ ws_login' = IF running'["private"] THEN ws_login ELSE "none"
  /\ UNCHANGED << subscribed, callbacks, sent, ws_logged, remembered, ws_raised >>
  /\ UNCHANGED << order_vars, book_vars, hist_vars, thread_vars, cancel_vars, trade_vars >>

RunningPrivateConnected == running["private"] /\ PrivateConnected

RunningPublicConnected == running["public"] /\ PublicConnected

NextLifecycle ==
  \/ Subscribe
  \/ RunningPrivateConnected
  \/ PrivateLogin
  \/ RunningPublicConnected
  \/ ForcedDisconnect
  \/ Close

SpecLifecycle == InitChannels /\ [][NextLifecycle]_vars

\* ------------------------------------------------------------------------
\* Orders and their executions
\* ------------------------------------------------------------------------
\* the executions the venue reports of its orders: one per order, with the
\* order_link_id the order was created with
ExecutionEntries ==
  { [order_id |-> v, order_link_id |-> venue_orders[v], exec_id |-> v] : v \in VenueIds }

ExecutionPackets == { << d >> : d \in ExecutionEntries }

\* a packet of the execution topic arrives
OnTrade ==
  /\ \E data \in ExecutionPackets : trade_emitted' = on_trade(data)
  /\ UNCHANGED other_than_trades

NextTrades ==
  \/ send_order
  \/ VenueCreate
  \/ VenueExternal
  \/ OnSendOrder
  \/ OnOrder
  \/ OnQueryOrder
  \/ OnTrade

SpecTrades == Init /\ [][NextTrades]_vars

\* ------------------------------------------------------------------------
\* C11: the status of an order
\* ------------------------------------------------------------------------
\* pending, partially filled, ended
StatusRank(status) ==
  CASE status \in { "SUBMITTING", "NOTTRADED" } -> 0
    [] status = "PARTTRADED" -> 1
    [] OTHER -> 2

NoRegress(old, new) ==
  /\ StatusRank(new) >= StatusRank(old)
  /\ StatusRank(old) = 2 => new = old

\* C11: in every step, whichever REST callback or push update is handled,
\* every order record stays and its status does not regress: an order that is
\* ALLTRADED, CANCELLED or REJECTED keeps that status, and a PARTTRADED order
\* does not return to SUBMITTING or NOTTRADED.
C11_StatusMonotonic ==
  [][ \A l \in DOMAIN orders :
        /\ Has(orders', l)
        /\ NoRegress(orders[l].status, orders'[l].status) ]_vars

\* ------------------------------------------------------------------------
\* C12, C13: snapshots and deltas of the order book
\* ------------------------------------------------------------------------
\* the levels a list of entries gives for a side: price -> size
SideOf(ds, side) ==
  LET held == { i \in 1..Len(ds) : ds[i].side = side }
  IN [p \in { ds[i].price : i \in held } |->
        ds[CHOOSE i \in held : ds[i].price = p /\ \A j \in held : ds[j].price = p => j <= i].size]

\* C12: for every book on_depth can reach and every snapshot, after on_depth
\* has handled the snapshot the bids are exactly the Buy levels of the
\* snapshot and the asks exactly its Sell levels.
C12_SnapshotReplaces ==
  \A packet \in SnapshotPackets :
    LET b == on_depth(BookOf(BookSymbol), packet)
    IN /\ b.bids = SideOf(packet.data, "Buy")
       /\ b.asks = SideOf(packet.data, "Sell")

\* the prices of a list of entries
PricesOf(ds) == { ds[i].price : i \in 1..Len(ds) }

\* C13: for every book on_depth can reach after a snapshot and every delta, a
\* price that is in the delete list and in the update or insert list of the
\* delta is held by its side after on_depth, with the size of the update or
\* insert.
C13_DeleteBeforeUpsert ==
  handled # "none" =>
    \A packet \in DeltaPackets :
      LET b == on_depth(BookOf(BookSymbol), packet)
          upserts == packet.data.update \o packet.data.insert
      IN \A side \in { "Buy", "Sell" } :
           \A p \in PricesOf(SelectSeq(packet.data.delete, LAMBDA d : d.side = side)) :
             Has(SideOf(upserts, side), p)
               => LET held == IF side = "Buy" THEN b.bids ELSE b.asks
                  IN /\ Has(held, p)
                     /\ held[p] = SideOf(upserts, side)[p]

\* ------------------------------------------------------------------------
\* C14: subscribe and the state of the session
\* ------------------------------------------------------------------------
\* the private channel is connected and its auth frame was answered with success
Authenticated == ws_up["private"] /\ ws_login = "ok"

\* C14: while the session is not Authenticated, subscribe(symbol) remembers
\* the symbol and sends no frame, and no subscribe frame of a market-data
\* topic has been sent since the disconnect.
C14_SubscribeOnlyRemembers ==
  ~Authenticated =>
    /\ \A symbol \in CallerSymbols :
         LET r == gateway_subscribe(Session, usdt_base, symbol)
         IN /\ r.sent = sent
            /\ symbol \in SymbolsOf(r.subscribed[MarketChannel])
    /\ \A i \in 1..Len(sent) : ~IsMarketSubscribe(sent[i])

\* ------------------------------------------------------------------------
\* C15: the auth frame
\* ------------------------------------------------------------------------
\* the frames sent on the private channel since the disconnect, in order
PrivateFrames(frames) == SelectSeq(frames, LAMBDA f : f.ch = "private")

\* C15: whenever the transport of the private channel connects, on the first
\* connection and on every one after a disconnect, on_connected sends the
\* auth frame at once and the login is pending after it; and while the
\* transport is connected the first frame sent on it is the auth frame.
C15_AuthFirst ==
  /\ ~ws_up["private"] =>
       LET r == private_on_connected(Session)
       IN /\ r.up["private"]
          /\ r.login = "sent"
          /\ r.sent = Append(sent, AuthFrame)
  /\ ws_up["private"] =>
       /\ ws_login # "none"
       /\ PrivateFrames(sent) # <<>>
       /\ PrivateFrames(sent)[1] = AuthFrame

\* in inverse mode, where the market data shares the channel: the transport
\* has connected again after a disconnect with two symbols subscribed, and the
\* auth frame is the one frame sent
C15_Witness ==
  /\ ~usdt_base
  /\ remembered = InverseSymbols
  /\ ws_up["private"]
  /\ ws_login = "sent"
  /\ sent = << AuthFrame >>

\* ------------------------------------------------------------------------
\* C16: auth failure
\* ------------------------------------------------------------------------
IsSubscribe(frame) == frame.op = "subscribe"

\* C16: when the venue answers the auth frame with a failure, on_login leaves
\* the private channel disconnected and sends nothing; and as long as no login
\* has succeeded since the disconnect, no subscribe frame, of a private or of
\* a market-data topic, has been sent.
C16_FaultDisconnects ==
  /\ (ws_up["private"] /\ ws_login = "sent") =>
       LET r == on_login(Session, usdt_base, FALSE)
       IN /\ ~r.up["private"]
          /\ r.sent = sent
  /\ ws_login = "failed" => ~ws_up["private"]
  /\ ws_login # "ok" => \A i \in 1..Len(sent) : ~IsSubscribe(sent[i])

\* ------------------------------------------------------------------------
\* C17: resubscription
\* ------------------------------------------------------------------------
\* the two subscribe frames of a symbol on a channel
MarketFrames(ch, symbol) ==
  { SubscribeFrame(ch, Topic("instrument_info.100ms", symbol)),
    SubscribeFrame(ch, Topic("orderBookL2_25", symbol)) }

\* the frames of a list from position n + 1 on
FramesAfter(frames, n) == { frames[i] : i \in (n + 1)..Len(frames) }

NoRepeat(q) == \A i, j \in 1..Len(q) : i # j => q[i] # q[j]

\* C17: in every state, after any number of disconnects and reconnects: when
\* the venue answers the auth frame with success, on_login sends the tick
\* frame and the depth frame of every symbol the private channel remembers
\* and leaves what the channel remembers as it was; the same holds for the
\* public channel when its transport connects; once the session is
\* authenticated those frames are among the frames sent since the disconnect;
\* and no channel remembers a symbol twice.
C17_Resubscribes ==
  /\ (ws_up["private"] /\ ws_login = "sent") =>
       LET r == on_login(Session, usdt_base, TRUE)
       IN /\ \A symbol \in SymbolsOf(subscribed["private"]) :
               MarketFrames("private", symbol) \subseteq FramesAfter(r.sent, Len(sent))
          /\ r.subscribed = subscribed
  /\ (usdt_base /\ ~ws_up["public"]) =>
       LET r == public_on_connected(Session)
       IN /\ \A symbol \in SymbolsOf(subscribed["public"]) :
               MarketFrames("public", symbol) \subseteq FramesAfter(r.sent, Len(sent))
          /\ r.subscribed = subscribed
  /\ Authenticated =>
       \A symbol \in SymbolsOf(subscribed["private"]) :
         MarketFrames("private", symbol) \subseteq FramesAfter(sent, 0)
  /\ \A ch \in DOMAIN subscribed : NoRepeat(subscribed[ch])

\* in inverse mode: after a disconnect with two symbols subscribed the session
\* is authenticated again, the auth frame, the three private topics and the
\* four frames of the two symbols have been sent, and two symbols are remembered
C17_Witness ==
  /\ ~usdt_base
  /\ remembered = InverseSymbols
  /\ Authenticated
  /\ Len(sent) = 8
  /\ \A symbol \in InverseSymbols : MarketFrames("private", symbol) \subseteq FramesAfter(sent, 4)
  /\ Len(subscribed["private"]) = 2

\* ------------------------------------------------------------------------
\* C18: packets on_packet cannot route
\* ------------------------------------------------------------------------
\* a packet without topic whose request, or the op of its request, is not there
MissingField(packet) ==
  /\ ~Has(packet, "topic")
  /\ \/ ~Has(packet, "request")
     \/ ~Has(packet.request, "op")

\* the handler returned without an exception, wrote a log line and changed
\* nothing of the session
Dropped(r) ==
  /\ r.raised = "none"
  /\ r.logged # <<>>
  /\ r.login = ws_login
  /\ r.subscribed = subscribed
  /\ r.callbacks = callbacks
  /\ r.ticks = ticks
  /\ r.sent = sent

\* C18: a packet of a topic without a callback, and a packet that lacks
\* its request or the op of its request, is logged and dropped: on_packet
\* returns without raising and changes nothing
C18_BadFrameDropped ==
  \A ch \in DOMAIN ws_up :
    ws_up[ch] =>
      /\ \A packet \in { p \in RequestPackets(ch) : MissingField(p) } :
           Dropped(on_packet(Session, ch, usdt_base, packet))
      /\ \A packet \in TopicPackets(ch) :
           Dropped(on_packet(Session, ch, usdt_base, packet))

\* ------------------------------------------------------------------------
\* C19: rejection by the venue
\* ------------------------------------------------------------------------
\* the answers to the create request of l that report an error code
Rejections(l) == { data \in CreateResponses(l) : check_error(data) }

\* the handler left the order l rejected, emitted it as rejected and wrote a log line
RejectedAndEmitted(r, l) ==
  /\ Has(r.orders, l)
  /\ r.orders[l].status = "REJECTED"
  /\ \E i \in DOMAIN r.emitted :
       r.emitted[i].orderid = l /\ r.emitted[i].status = "REJECTED"
  /\ r.logged # <<>>

\* C19: when the venue answers a create request with a non-zero ret_code,
\* the order is set to rejected, a rejected order event is emitted and a
\* log line is written
C19_RejectionRejects ==
  \A l \in DOMAIN create_requests : \A data \in Rejections(l) :
    RejectedAndEmitted(on_send_order(Manager, data), l)

\* ------------------------------------------------------------------------
\* C20: transport exception
\* ------------------------------------------------------------------------
\* C20: when the create request of an order ends with a ConnectionError,
\* the order is kept as rejected and emitted as rejected, and no error is
\* recorded
C20_TransportErrorRejects ==
  \A l \in DOMAIN create_requests :
    LET r == on_send_order_error(Manager, "ConnectionError", create_requests[l])
    IN /\ Has(r.orders, l)
       /\ r.orders[l].status = "REJECTED"
       /\ r.emitted = << [create_requests[l] EXCEPT !.status = "REJECTED"] >>
       /\ r.emitted[1].orderid = l
       /\ r.logged = <<>>
       /\ r.local_sys = local_sys_orderid_map
       /\ r.sys_local = sys_local_orderid_map

\* the create request of order 1, which the venue never received, has ended
\* with a ConnectionError: the order is rejected, its event is the last one
\* emitted, nothing is logged
C20_Witness ==
  /\ Has(orders, L(1))
  /\ ~Has(create_requests, L(1))
  /\ \A v \in VenueIds : venue_orders[v] # L(1)
  /\ orders[L(1)].status = "REJECTED"
  /\ emitted = << [orderid |-> L(1), status |-> "REJECTED"] >>
  /\ logged = <<>>

\* ------------------------------------------------------------------------
\* C21: an empty page of history
\* ------------------------------------------------------------------------
\* the answers with status 2xx and ret_code 0 that hold no bar
EmptyPages(resps) ==
  { resp \in resps :
      resp.status_code \div 100 = 2 /\ resp.ret_code = 0 /\ resp.result = <<>> }

\* C21: a page of history without results ends the call: the round that
\* receives it stops the loop and leaves the bars and the cursor as they are,
\* so that no page follows an empty page, no request follows it, and the bars
\* returned are the bars of the pages received before it
C21_EmptyPageTerminal ==
  /\ hist_pc = "loop" =>
       \A resp \in EmptyPages(KlineResponses(hist_req, kline_total, start_time, count)) :
         LET h == query_history_loop(HistoryCall, hist_req, resp, utc_offset)
         IN /\ h.pc = "done"
            /\ h.history = history
            /\ h.start_time = start_time
  /\ \A i \in 1..Len(hist_pages) :
       hist_pages[i] = <<>> =>
         /\ i = Len(hist_pages)
         /\ hist_pc = "done"
         /\ Len(hist_from) = i
         /\ history = bars_of(Concat(hist_pages), utc_offset)

\* the venue holds exactly count bars: the first page was full, the second
\* page was empty, and the call has ended with the bars of the first page
C21_Witness ==
  /\ kline_total = count
  /\ utc_offset = 0
  /\ Len(hist_pages) = 2
  /\ Len(hist_pages[1]) = count
  /\ hist_pages[2] = <<>>
  /\ hist_logged = << "success", "empty" >>
  /\ hist_pc = "done"
  /\ Len(history) = count

\* ------------------------------------------------------------------------
\* C22: the pages of the order list
\* ------------------------------------------------------------------------
\* the requests of the order list in flight
InFlight(reqs) == { k \in DOMAIN reqs : reqs[k] > 0 }

\* the answers to a request of a page that hold entries and declare their pages
DeclaredPages(page) ==
  { data \in OrderListResponses(page) :
      /\ ~check_error(data)
      /\ data.result # None
      /\ data.result.data # <<>> }

\* C22: the pages of the order list of a symbol are followed one after the
\* other: a page of a symbol is requested only when no other page of that
\* symbol is in flight, the result of a page that is not the last requests the
\* next page of that symbol, and the result of the last page requests nothing
C22_PagesSequential ==
  /\ \A k1, k2 \in InFlight(order_list_requests) : k1[1] = k2[1] => k1[2] = k2[2]
  /\ \A k \in InFlight(order_list_requests) : \A data \in DeclaredPages(k[2]) :
       LET taken == [order_list_requests EXCEPT ![k] = @ - 1]
           r == on_query_order(Manager, taken, usdt_base, data)
       IN IF data.result.current_page = data.result.last_page
          THEN r.reqs = taken
          ELSE /\ << k[1], k[2] + 1 >> \in InFlight(r.reqs)
               /\ \A k2 \in InFlight(r.reqs) : k2[1] = k[1] => k2[2] = k[2] + 1

\* ------------------------------------------------------------------------
\* C23: a status reported by the venue and a callback of the create request
\* ------------------------------------------------------------------------
\* the order of local id l is kept with a status other than the one send_order
\* gave it while its create request is still pending: the venue has reported it
VenueReported(l) ==
  /\ Has(create_requests, l)
  /\ Has(orders, l)
  /\ orders[l].status # "SUBMITTING"

ExceptionTypes == { "ConnectionError", "JSONDecodeError" }

\* C23: when the venue has reported the status of an order, by a push or by
\* the order list, and the create request of that order then ends with an
\* exception, the status the venue reported is kept
C23_VenueStatusKept ==
  \A l \in DOMAIN create_requests :
    VenueReported(l) =>
      \A t \in ExceptionTypes :
        on_send_order_error(Manager, t, create_requests[l]).orders[l].status
          = orders[l].status

\* ------------------------------------------------------------------------
\* C24: the push thread and the REST workers on one order record
\* ------------------------------------------------------------------------
\* the local id of the record the push thread is about to store
WsTarget ==
  IF ws_order # None THEN ws_order.orderid
  ELSE IF ws_d.order_link_id = NoId THEN ws_d.order_id ELSE ws_d.order_link_id

\* C24: the push thread and a REST worker are never at the same time between
\* the read and the write of the same order record
C24_MutualExclusion ==
  ~ (/\ ws_pc = "entry"
     /\ rest_pc = "rejecting"
     /\ WsTarget = rest_l)

\* ------------------------------------------------------------------------
\* C25: the answer to a cancel request
\* ------------------------------------------------------------------------
\* the handler left the order records, the id maps and the events as they were
NoOrderChange(r) ==
  /\ r.orders = orders
  /\ r.local_sys = local_sys_orderid_map
  /\ r.sys_local = sys_local_orderid_map
  /\ r.emitted = <<>>

\* C25: the answer to a cancel request, without error or with an error code
\* of the venue, and the exception a cancel request ends with, change the
\* status of no order record and emit no order event
C25_CancelAckKeepsStatus ==
  \A i \in cancel_requests :
    /\ \A data \in CancelResponses :
         NoOrderChange(on_cancel_order(Manager, data, cancel_sent[i]))
    /\ \A t \in ExceptionTypes :
         /\ NoOrderChange(on_error(Manager, t, cancel_sent[i]))
         /\ NoOrderChange(on_cancel_order_error(Manager, t, cancel_sent[i]))

\* the cancel request of order 1, sent with its venue id, has been answered
\* without error and the order is still kept as the venue last reported it
C25_Witness ==
  /\ \E i \in DOMAIN cancel_sent :
       /\ cancel_sent[i].req_orderid = L(1)
       /\ cancel_sent[i].order_id = V(1)
       /\ << i, 0 >> \in cancel_answered
  /\ cancel_requests = {}
  /\ Has(orders, L(1))
  /\ orders[L(1)].status = "NOTTRADED"
  /\ emitted = <<>>

\* ------------------------------------------------------------------------
\* C26: the five levels of the quote
\* ------------------------------------------------------------------------
\* prices[i] is the i-th best price of the side and volumes[i] its size; the
\* best bid is the highest price, the best ask the lowest
TopLevels(side, prices, volumes, bid) ==
  \A i \in 1..Depth :
    /\ Has(side, prices[i])
    /\ volumes[i] = side[prices[i]]
    /\ Cardinality({ p \in DOMAIN side : IF bid THEN p > prices[i] ELSE p < prices[i] })
         = i - 1

\* the quote emitted by a depth packet that left the book as b
QuoteOfBook(b) ==
  /\ b.emitted # None
  /\ TopLevels(b.bids, b.emitted.bid_price, b.emitted.bid_volume, TRUE)
  /\ TopLevels(b.asks, b.emitted.ask_price, b.emitted.ask_volume, FALSE)
  /\ \A i \in 1..(Depth - 1) :
       /\ b.emitted.bid_price[i] > b.emitted.bid_price[i + 1]
       /\ b.emitted.ask_price[i] < b.emitted.ask_price[i + 1]

\* the packet was put into the book without a fault and the book then holds
\* at least five levels on each side
DeepBook(b) ==
  /\ b.raised = "none"
  /\ Cardinality(DOMAIN b.bids) >= Depth
  /\ Cardinality(DOMAIN b.asks) >= Depth

\* C26: a depth packet that leaves at least five levels on each side of
\* the book emits a quote whose bid level i is the i-th highest bid price of
\* the book with its size and whose ask level i is the i-th lowest ask price
\* with its size; the bid prices fall and the ask prices rise with i
C26_TopFive ==
  /\ \A packet \in SnapshotPackets :
       DeepBook(depth_update(BookOf(packet.topic), packet))
         => QuoteOfBook(on_depth(BookOf(packet.topic), packet))
  /\ handled # "none" =>
       \A packet \in DeltaPackets :
         DeepBook(depth_update(BookOf(packet.topic), packet))
           => QuoteOfBook(on_depth(BookOf(packet.topic), packet))

\* a delta has put a sixth bid above the five of the snapshot: the quote
\* emitted starts at the new price, with its size, and leaves the lowest out
C26_Witness ==
  /\ handled = "delta"
  /\ raised = "none"
  /\ tick_emitted # None
  /\ Has(symbol_bids, BookSymbol)
  /\ Cardinality(DOMAIN symbol_bids[BookSymbol]) = Depth + 1
  /\ tick_emitted.bid_price = << 6, 5, 4, 3, 2 >>
  /\ tick_emitted.bid_volume[1] = 2
  /\ tick_emitted.ask_price = << 1, 2, 3, 4, 5 >>

\* ------------------------------------------------------------------------
\* C27: the venue id of a cancel request
\* ------------------------------------------------------------------------
\* the cancel request carries a venue id, and the one bound to its local id
CarriesBoundId(data) ==
  /\ data.order_id # NoId
  /\ Has(local_sys_orderid_map, data.req_orderid)
  /\ local_sys_orderid_map[data.req_orderid] = data.order_id

\* C27: every cancel request sent carries the venue id bound to the local
\* id it was asked for; cancel_order for an order whose venue id is not bound
\* yet sends no request with an empty venue id
C27_CancelCarriesVenueId ==
  /\ \A i \in DOMAIN cancel_sent : CarriesBoundId(cancel_sent[i])
  /\ \A orderid \in DOMAIN orders :
       ~Has(local_sys_orderid_map, orderid)
         => cancel_order(Manager, [orderid |-> orderid]).order_id # NoId

\* ------------------------------------------------------------------------
\* C28: the requests of the order list
\* ------------------------------------------------------------------------
\* C28: a page of the order list of a symbol is requested at most once
\* at a time, and the result of a page of a symbol requests no page of
\* another symbol
C28_PageRequestedOnce ==
  /\ \A k \in DOMAIN order_list_requests : order_list_requests[k] <= 1
  /\ \A k \in InFlight(order_list_requests) : \A data \in OrderListResponses(k[2]) :
       LET taken == [order_list_requests EXCEPT ![k] = @ - 1]
           r == on_query_order(Manager, taken, usdt_base, data)
       IN \A k2 \in DOMAIN r.reqs :
            k2[1] # k[1] => (k2 \in DOMAIN taken /\ r.reqs[k2] = taken[k2])

\* ------------------------------------------------------------------------
\* C29: close()
\* ------------------------------------------------------------------------
\* the clients connect() has started in the contract mode of the gateway
Started == { client \in DOMAIN running : connect(usdt_base)[client] }

\* C29: after close(), no client that connect() started is still running:
\* the REST client, the private channel and, in USDT mode, the public channel
\* are stopped
C29_CloseStopsAll ==
  closed => \A client \in Started : ~running[client]

\* ------------------------------------------------------------------------
\* C30: the order id of a trade
\* ------------------------------------------------------------------------
\* the trade made from the entry d carries the local id bound to d's venue id
TradeOfBound(d, trade) ==
  Has(sys_local_orderid_map, d.order_id)
    => trade.orderid = sys_local_orderid_map[d.order_id]

\* C30: whenever the id map binds the venue order id of an execution, the
\* trade on_trade makes from it carries the bound local id, the id under which
\* on_order, on_send_order and on_query_order keep the order
C30_TradeCarriesLocalId ==
  /\ \A d \in ExecutionEntries : TradeOfBound(d, on_trade_entry(d))
  /\ \A i \in DOMAIN trade_emitted :
       /\ TradeOfBound(trade_emitted[i].d, trade_emitted[i].trade)
       /\ Has(sys_local_orderid_map, trade_emitted[i].d.order_id)
            => Has(orders, trade_emitted[i].trade.orderid)

\* the execution of the venue order of local order 1 has been handled after
\* the id was bound: the trade carries local id 1, not the venue id
C30_Witness ==
  /\ Has(sys_local_orderid_map, V(1))
  /\ sys_local_orderid_map[V(1)] = L(1)
  /\ Has(orders, L(1))
  /\ Len(trade_emitted) = 1
  /\ trade_emitted[1].d.order_id = V(1)
  /\ trade_emitted[1].trade.orderid = L(1)

====
